---- MODULE Spec2Model ----
(***************************************************************************)
(* gopilot (src/main.go): the unit decomposition / recomposition engine    *)
(* (splitGoFile, unsplitGoFile), the manifest reconciler (processLocations,*)
(* updateSplitOrder, applyChanges) and the change-set extractor            *)
(* (parseChanges).                                                         *)
(*                                                                         *)
(* A string of the program is a sequence of elements.  An element is one   *)
(* character ("{", "\"", "\\", "/", LF, NUL, ...) or a run of ordinary     *)
(* characters that the code never looks into (a declaration's text, a      *)
(* word, a file-name stem, the suffix ".gopart").  Concatenation of        *)
(* strings is concatenation of sequences.                                  *)
(***************************************************************************)
EXTENDS Integers, Sequences, FiniteSets, TLC

VARIABLES
    pc,       \* position of the running process
    dirs,     \* the directories that exist
    orders,   \* directory -> contents of its splitorder.json (where it exists)
    files,    \* path -> contents of every other file that exists
    changes,  \* the []FileContent in hand (parseChanges' result, applyChanges' input)
    idx,      \* loop index into changes (processLocations, applyChanges)
    was,      \* history: was[i] is orders as it was when changes[i] was reconciled
    received, \* number of edit records received so far in this session
    err,      \* the log.Fatal message the process ended with ("" if none)
    raw,      \* parseChanges: rawChanges
    scan,     \* parseChanges: rawJSON and the locals of the character scan
    requests, \* continuation requests made (calls of generateAdditionalChanges)
    run       \* the flags of the process and what its commands have done so far

vars ==
    <<pc, dirs, orders, files, changes, idx, was, received, err, raw, scan, requests, run>>

----------------------------------------------------------------------------
(* Bounds of the model.                                                    *)

\* edit records a session receives (over all change-sets)
MaxRecords == 2
\* declarations of a source file handed to splitGoFile
MaxDecls == 3
\* edit records of an array the generative service renders
MaxObjects == 2
\* requests of fixBuild and fixTests are counted up to
MaxFixes == 2

----------------------------------------------------------------------------
(* Strings.                                                                *)

LF == "\n"
NUL == "NUL"
Slash == "/"
GopartExt == ".gopart"
GoExt == ".go"

Range(s) == {s[i] : i \in 1..Len(s)}

\* strings.Join(parts, sep)
RECURSIVE Join(_, _)
Join(ps, sep) ==
    IF ps = <<>> THEN <<>>
    ELSE IF Len(ps) = 1 THEN ps[1]
    ELSE ps[1] \o sep \o Join(Tail(ps), sep)

\* strings.Split(s, sep) for a one-element separator: the pieces between
\* the separators, Len = number of separators + 1
RECURSIVE SplitAt(_, _, _)
SplitAt(s, sep, cur) ==
    IF s = <<>> THEN <<cur>>
    ELSE IF Head(s) = sep THEN <<cur>> \o SplitAt(Tail(s), sep, <<>>)
    ELSE SplitAt(Tail(s), sep, Append(cur, Head(s)))

SplitString(s, sep) == SplitAt(s, sep, <<>>)

\* strings.ReplaceAll(s, c, "") for a one-element c
ReplaceAllEmpty(s, c) == SelectSeq(s, LAMBDA e : e # c)

\* strings.TrimSuffix(s, suffix) for a one-element suffix
TrimSuffix(s, suffix) ==
    IF s # <<>> /\ s[Len(s)] = suffix THEN SubSeq(s, 1, Len(s) - 1) ELSE s

\* index of the last "/" of a path, 0 if it has none
LastSlash(p) ==
    IF \E i \in 1..Len(p) : p[i] = Slash
    THEN CHOOSE i \in 1..Len(p) : p[i] = Slash /\ \A j \in (i+1)..Len(p) : p[j] # Slash
    ELSE 0

\* filepath.Dir(p)
Dir(p) == IF LastSlash(p) = 0 THEN <<".">> ELSE SubSeq(p, 1, LastSlash(p) - 1)

\* filepath.Base(p)
Base(p) == IF p = <<>> THEN <<".">> ELSE SubSeq(p, LastSlash(p) + 1, Len(p))

\* filepath.Join(dir, name)
PathJoin(dir, name) == dir \o <<Slash>> \o name

\* the concatenation of the strings of a sequence
RECURSIVE Concat(_)
Concat(ss) == IF ss = <<>> THEN <<>> ELSE Head(ss) \o Concat(Tail(ss))

\* all orders in which the elements of a finite set can be listed
Perms(S) ==
    {p \in [1..Cardinality(S) -> S] : \A i, j \in DOMAIN p : p[i] = p[j] => i = j}

----------------------------------------------------------------------------
(* Go source text, as go/parser sees it.  A declaration, the package       *)
(* clause and a comment line are one element each.                         *)

PackageClause == "package main"
ImportDecl == "import fmt"
EmbedComment == "//go:embed e"
DocComment == "// doc"
Comments == {EmbedComment, DocComment}

\* a comment that follows a declaration on its line with no space between:
\* its first character, and the rest of it
CommentStart == "/"
CommentRest == "/ c"

\* token of a general declaration (ast.GenDecl.Tok); "FUNC" for an ast.FuncDecl
DeclTok ==
    [x \in {ImportDecl, "var v", "type T", "const c", "func f1 {}", "func f2 {}",
            "func (A) m {}", "func (B) m {}"} |->
        CASE x = ImportDecl -> "IMPORT"
          [] x = "var v" -> "VAR"
          [] x = "type T" -> "TYPE"
          [] x = "const c" -> "CONST"
          [] OTHER -> "FUNC"]

DeclElems == DOMAIN DeclTok

\* ast.FuncDecl.Name.Name
FuncName(d) ==
    CASE d = "func f1 {}" -> "f1"
      [] d = "func f2 {}" -> "f2"
      [] d \in {"func (A) m {}", "func (B) m {}"} -> "m"

\* positions of the declarations of a text, in source order (ast.File.Decls)
DeclPositions(t) == SelectSeq([i \in 1..Len(t) |-> i], LAMBDA i : t[i] \in DeclElems)

\* whether parser.ParseFile accepts the text: one package clause before every
\* declaration, imports before the other declarations, every clause,
\* declaration and comment ended by a line break (or the end of the file),
\* a declaration possibly with a whole comment behind it, and nothing else
\* in the file
ParseOk(t) ==
    /\ \A i \in 1..Len(t) :
          t[i] \in DeclElems \cup Comments \cup {PackageClause, LF, CommentStart, CommentRest}
    /\ \A i \in 1..Len(t) :
          t[i] = CommentStart =>
              i > 1 /\ t[i-1] \in DeclElems /\ i < Len(t) /\ t[i+1] = CommentRest
    /\ \A i \in 1..Len(t) : t[i] = CommentRest => i > 1 /\ t[i-1] = CommentStart
    /\ Cardinality({i \in 1..Len(t) : t[i] = PackageClause}) = 1
    /\ \A i, j \in 1..Len(t) :
          (t[j] = PackageClause /\ t[i] \in DeclElems) => j < i
    /\ \A i, j \in 1..Len(t) :
          (i < j /\ t[j] = ImportDecl /\ t[i] \in DeclElems) => t[i] = ImportDecl
    /\ \A i \in 1..(Len(t) - 1) :
          /\ t[i] \in Comments \cup {PackageClause, CommentRest} => t[i+1] = LF
          /\ t[i] \in DeclElems => t[i+1] \in {LF, CommentStart}

\* the comment lines directly above position i (ast.GenDecl.Doc.List), nearest last
RECURSIVE DocList(_, _)
DocList(t, i) ==
    IF i > 2 /\ t[i-1] = LF /\ t[i-2] \in Comments
    THEN Append(DocList(t, i - 2), t[i-2])
    ELSE <<>>

\* content[d.Pos()-1 : d.End()]: Pos() is the offset of the declaration plus
\* one and End() the offset after it plus one, so the slice holds the
\* declaration and the one character after it
DeclSlice(t, i) == <<t[i], t[i+1]>>

\* the slice expression panics when the declaration ends the file
SlicePanics(t) ==
    \E i \in 1..Len(t) :
        t[i] \in DeclElems /\ DeclTok[t[i]] # "CONST" /\ i = Len(t)

----------------------------------------------------------------------------
(* The file system.                                                        *)

EditorDir == <<"editor">>
MainGo == <<"main", GoExt>>
ImportsPart == <<"imports", GopartExt>>
VarsPart == <<"varsandstructs", GopartExt>>

\* baseDir of splitGoFile and unsplitGoFile
BaseDirOf(filename) == PathJoin(EditorDir, TrimSuffix(filename, GoExt))

\* os.WriteFile(path, content): fails when the directory does not exist
WriteFile(fls, ds, path, content) ==
    IF Dir(path) \in ds
    THEN [p \in DOMAIN fls \cup {path} |-> IF p = path THEN content ELSE fls[p]]
    ELSE fls

\* os.Remove(path)
RemoveFile(fls, path) == [p \in DOMAIN fls \ {path} |-> fls[p]]

\* writeSplitOrder(path, order) for the splitorder.json of directory d; the
\* callers drop the error of a missing directory
writeSplitOrder(ords, ds, d, order) ==
    IF d \in ds
    THEN [x \in DOMAIN ords \cup {d} |-> IF x = d THEN order ELSE ords[x]]
    ELSE ords

----------------------------------------------------------------------------
(* splitGoFile.                                                            *)

\* packageAndImports: "package %s\n\n", then every import declaration + "\n"
packageAndImports(t) ==
    LET ps == DeclPositions(t) IN
    <<PackageClause, LF, LF>> \o
    Concat([k \in 1..Len(ps) |->
        IF DeclTok[t[ps[k]]] = "IMPORT" THEN DeclSlice(t, ps[k]) \o <<LF>> ELSE <<>>])

\* the //go:embed lines of a declaration's doc comment, each + "\n"
embedLines(doc) ==
    Concat([k \in 1..Len(doc) |->
        IF doc[k] = EmbedComment THEN <<doc[k], LF>> ELSE <<>>])

\* varsAndStructs: every var and type declaration + "\n\n", after its
\* //go:embed lines; declarations of any other token are not written
varsAndStructs(t) ==
    LET ps == DeclPositions(t) IN
    Concat([k \in 1..Len(ps) |->
        IF DeclTok[t[ps[k]]] \in {"VAR", "TYPE"}
        THEN embedLines(DocList(t, ps[k])) \o DeclSlice(t, ps[k]) \o <<LF, LF>>
        ELSE <<>>])

\* positions of the function declarations of a text
FuncPositions(t) == {i \in 1..Len(t) : t[i] \in DeclElems /\ DeclTok[t[i]] = "FUNC"}

\* functions: the map from a function's name to its text + "\n"; a later
\* declaration of a name replaces the earlier entry
functions(t) ==
    [n \in {FuncName(t[i]) : i \in FuncPositions(t)} |->
        LET last == CHOOSE i \in FuncPositions(t) :
                        /\ FuncName(t[i]) = n
                        /\ \A j \in FuncPositions(t) : FuncName(t[j]) = n => j <= i
        IN DeclSlice(t, last) \o <<LF>>]

\* the orders in which "for name := range functions" can visit the map: the
\* iteration order of a Go map is not specified
MapOrders(fns) == Perms(DOMAIN fns)

\* splitOrder as splitGoFile builds it for one iteration order
initialSplitOrder(names) ==
    <<ImportsPart, VarsPart>> \o [k \in 1..Len(names) |-> <<names[k], GopartExt>>]

\* the unit files splitGoFile writes into baseDir
splitFiles(fls, baseDir, t) ==
    LET fns == functions(t)
        written == [p \in {PathJoin(baseDir, ImportsPart), PathJoin(baseDir, VarsPart)}
                          \cup {PathJoin(baseDir, <<n, GopartExt>>) : n \in DOMAIN fns} |->
                       IF p = PathJoin(baseDir, ImportsPart) THEN packageAndImports(t)
                       ELSE IF p = PathJoin(baseDir, VarsPart) THEN varsAndStructs(t)
                       ELSE fns[p[Len(p) - 1]]]
    IN [p \in DOMAIN fls \cup DOMAIN written |->
           IF p \in DOMAIN written THEN written[p] ELSE fls[p]]

----------------------------------------------------------------------------
(* unsplitGoFile.                                                          *)

\* the manifest entries whose unit file cannot be read
missingParts(fls, baseDir, splitOrder) ==
    {i \in 1..Len(splitOrder) : PathJoin(baseDir, splitOrder[i]) \notin DOMAIN fls}

\* parts: the contents of the unit files, in the order of splitorder.json
readParts(fls, baseDir, splitOrder) ==
    [i \in 1..Len(splitOrder) |-> fls[PathJoin(baseDir, splitOrder[i])]]

\* a composition that separates the parts by a single line break
combinePartsOneBreak(parts) == ReplaceAllEmpty(Join(parts, <<LF>>), NUL)

\* combinedContent: the parts joined by "\n\n", every "\x00" removed
combineParts(parts) == ReplaceAllEmpty(Join(parts, <<LF, LF>>), NUL)

----------------------------------------------------------------------------
(* Edit records and the manifest reconciler.                               *)

\* a FileContent
FileContent(path, content, delete, insBefore, insAfter) ==
    [FilePath |-> path, Content |-> content, Delete |-> delete,
     InsertBefore |-> insBefore, InsertAfter |-> insAfter]

BeforeMarker == "// insert-before: f1"
AfterMarker == "// insert-after: f1"

\* strings.HasPrefix(line, "// insert-before: ") || strings.HasPrefix(line, "// insert-after: ")
hasMarkerPrefix(line) == line # <<>> /\ line[1] \in {BeforeMarker, AfterMarker}

\* a removal that looks for a marker on the first line of the content only
removeLeadingInsertionPoint(content) ==
    LET lines == SplitString(content, LF) IN
    Join(IF hasMarkerPrefix(lines[1]) THEN Tail(lines) ELSE lines, <<LF>>)

removeInsertionPoint(content) ==
    Join(SelectSeq(SplitString(content, LF), LAMBDA line : ~hasMarkerPrefix(line)), <<LF>>)

getInsertionPoint(content) ==
    IF content.InsertBefore # <<>> THEN [before |-> TRUE, point |-> content.InsertBefore]
    ELSE IF content.InsertAfter # <<>> THEN [before |-> FALSE, point |-> content.InsertAfter]
    ELSE [before |-> FALSE, point |-> <<>>]

contains(slice, item) == \E i \in 1..Len(slice) : slice[i] = item

\* a reconciler that takes insert-before for insert-after and the reverse
updateSplitOrderSwapped(order, newFile, insertionPoint, insertBefore) ==
    LET hits == {i \in 1..Len(order) : order[i] = insertionPoint \o <<GopartExt>>} IN
    IF hits = {} THEN Append(order, newFile)
    ELSE LET i == CHOOSE h \in hits : \A g \in hits : h <= g IN
         IF ~insertBefore
         THEN SubSeq(order, 1, i - 1) \o <<newFile>> \o SubSeq(order, i, Len(order))
         ELSE SubSeq(order, 1, i) \o <<newFile>> \o SubSeq(order, i + 1, Len(order))

\* a reconciler that leaves the manifest alone when the hinted id is not in it
updateSplitOrderUnfound(order, newFile, insertionPoint, insertBefore) ==
    LET hits == {i \in 1..Len(order) : order[i] = insertionPoint \o <<GopartExt>>} IN
    IF hits = {} THEN order
    ELSE LET i == CHOOSE h \in hits : \A g \in hits : h <= g IN
         IF insertBefore
         THEN SubSeq(order, 1, i - 1) \o <<newFile>> \o SubSeq(order, i, Len(order))
         ELSE SubSeq(order, 1, i) \o <<newFile>> \o SubSeq(order, i + 1, Len(order))

updateSplitOrder(order, newFile, insertionPoint, insertBefore) ==
    LET hits == {i \in 1..Len(order) : order[i] = insertionPoint \o <<GopartExt>>} IN
    IF hits = {} THEN Append(order, newFile)
    ELSE LET i == CHOOSE h \in hits : \A g \in hits : h <= g IN
         IF insertBefore
         THEN SubSeq(order, 1, i - 1) \o <<newFile>> \o SubSeq(order, i, Len(order))
         ELSE SubSeq(order, 1, i) \o <<newFile>> \o SubSeq(order, i + 1, Len(order))

\* a reconciler that does not look at the placement hints
reconciledOrderNoHints(ords, change) ==
    LET baseDir == Dir(change.FilePath)
        fileName == Base(change.FilePath)
    IN  IF baseDir \notin DOMAIN ords THEN <<fileName>>
        ELSE IF ~contains(ords[baseDir], fileName)
             THEN Append(ords[baseDir], fileName)
        ELSE ords[baseDir]

\* the splitOrder one iteration of processLocations computes for a record
reconciledOrder(ords, change) ==
    LET baseDir == Dir(change.FilePath)
        fileName == Base(change.FilePath)
        ip == getInsertionPoint(change)
    IN  IF baseDir \notin DOMAIN ords THEN <<fileName>>
        ELSE IF ip.before \/ ip.point # <<>>
             THEN updateSplitOrder(ords[baseDir], fileName, ip.point, ip.before)
        ELSE IF ~contains(ords[baseDir], fileName)
             THEN Append(ords[baseDir], fileName)
        ELSE ords[baseDir]

\* one iteration of processLocations: the manifests after it
processLocation(ords, ds, change) ==
    writeSplitOrder(ords, ds, Dir(change.FilePath), reconciledOrder(ords, change))

\* one iteration of applyChanges: directories, manifests and files after it
applyDirs(ds, change) == ds \cup {Dir(change.FilePath)}

applyOrders(ords, ds, change) ==
    LET dir == Dir(change.FilePath) IN
    IF dir \notin ds /\ dir \notin DOMAIN ords
    THEN writeSplitOrder(ords, applyDirs(ds, change), dir, <<Base(change.FilePath)>>)
    ELSE ords

applyFiles(fls, ds, change) ==
    IF change.Delete
    THEN RemoveFile(fls, change.FilePath)
    ELSE WriteFile(fls, applyDirs(ds, change), change.FilePath, change.Content)

----------------------------------------------------------------------------
(* The two transformers as functions of the file system.  err is the       *)
(* log.Fatalf (or panic) that ends the process, "" if there is none.       *)

\* a decomposition that creates the container directory before it parses
splitGoFileMkdirFirst(fls, ds, ords, filename, names) ==
    LET baseDir == BaseDirOf(filename)
        made == ds \cup {EditorDir, baseDir}
        same == [err |-> "", dirs |-> ds, orders |-> ords, files |-> fls]
    IN  IF filename \notin DOMAIN fls THEN [same EXCEPT !.err = "read"]
        ELSE IF ~ParseOk(fls[filename]) THEN [same EXCEPT !.err = "parse", !.dirs = made]
        ELSE IF SlicePanics(fls[filename])
             THEN [same EXCEPT !.err = "slice bounds", !.dirs = made]
        ELSE [err |-> "",
              dirs |-> made,
              orders |-> writeSplitOrder(ords, made, baseDir, initialSplitOrder(names)),
              files |-> splitFiles(fls, baseDir, fls[filename])]

splitGoFile(fls, ds, ords, filename, names) ==
    LET baseDir == BaseDirOf(filename)
        made == ds \cup {EditorDir, baseDir}
        same == [err |-> "", dirs |-> ds, orders |-> ords, files |-> fls]
    IN  IF filename \notin DOMAIN fls THEN [same EXCEPT !.err = "read"]
        ELSE IF ~ParseOk(fls[filename]) THEN [same EXCEPT !.err = "parse"]
        ELSE IF SlicePanics(fls[filename])
             THEN [same EXCEPT !.err = "slice bounds", !.dirs = made]
        ELSE [err |-> "",
              dirs |-> made,
              orders |-> writeSplitOrder(ords, made, baseDir, initialSplitOrder(names)),
              files |-> splitFiles(fls, baseDir, fls[filename])]

\* a composition that leaves out the units it cannot read
unsplitGoFileSkipping(fls, ds, ords, filename) ==
    LET baseDir == BaseDirOf(filename) IN
    IF baseDir \notin ds THEN [err |-> "no directory", files |-> fls]
    ELSE IF baseDir \notin DOMAIN ords THEN [err |-> "no splitorder.json", files |-> fls]
    ELSE LET present == SelectSeq(ords[baseDir],
                                  LAMBDA e : PathJoin(baseDir, e) \in DOMAIN fls) IN
         [err |-> "",
          files |-> WriteFile(fls, ds, filename,
                              combineParts(readParts(fls, baseDir, present)))]

unsplitGoFile(fls, ds, ords, filename) ==
    LET baseDir == BaseDirOf(filename) IN
    IF baseDir \notin ds THEN [err |-> "no directory", files |-> fls]
    ELSE IF baseDir \notin DOMAIN ords THEN [err |-> "no splitorder.json", files |-> fls]
    ELSE IF missingParts(fls, baseDir, ords[baseDir]) # {}
         THEN [err |-> "no unit file", files |-> fls]
    ELSE [err |-> "",
          files |-> WriteFile(fls, ds, filename,
                              combineParts(readParts(fls, baseDir, ords[baseDir])))]

\* unsplitGoFiles: unsplitGoFile for every directory of ./editor, in the
\* order of os.ReadDir, up to the first that fails
RECURSIVE unsplitGoFiles(_, _, _, _)
unsplitGoFiles(fls, ds, ords, filenames) ==
    IF filenames = <<>> THEN [err |-> "", files |-> fls]
    ELSE LET r == unsplitGoFile(fls, ds, ords, Head(filenames)) IN
         IF r.err # "" THEN r ELSE unsplitGoFiles(r.files, ds, ords, Tail(filenames))

----------------------------------------------------------------------------
(* The edit records the generative service can send (an array that         *)
(* json.Unmarshal decodes without error).                                  *)

MainDir == BaseDirOf(MainGo)
UtilGo == <<"util", GoExt>>
UtilDir == BaseDirOf(UtilGo)

UnitPath(dir, n) == PathJoin(dir, <<n, GopartExt>>)

\* ./editor read by os.ReadDir: the directory names sorted, each + ".go"
EditorFiles(ds) == <<MainGo>> \o (IF UtilDir \in ds THEN <<UtilGo>> ELSE <<>>)

Records ==
    {FileContent(p, <<>>, TRUE, <<>>, <<>>) :
        p \in {UnitPath(MainDir, "f1"), UnitPath(MainDir, "f3"), UnitPath(UtilDir, "g1")}}
    \cup
    {FileContent(p, c, FALSE, <<>>, <<>>) :
        p \in {UnitPath(MainDir, "f1"), UnitPath(MainDir, "f3"), UnitPath(UtilDir, "g1")},
        c \in {<<"x">>, <<"y", NUL>>}}
    \cup
    {FileContent(p, <<"x">>, FALSE, h[1], h[2]) :
        p \in {UnitPath(MainDir, "f1"), UnitPath(MainDir, "f3")},
        h \in {<< <<"f2">>, <<>> >>, << <<>>, <<"f1">> >>,
               << <<"zz">>, <<>> >>, << <<"zz">>, <<"f1">> >>}}
    \cup
    {FileContent(UnitPath(UtilDir, "g2"), <<"x">>, FALSE, <<>>, <<>>),
     FileContent(UnitPath(MainDir, "f4"), <<"x">>, FALSE, <<"f3">>, <<>>)}

ChangeSets(n) == UNION {[1..k -> Records] : k \in 0..n}

\* the source file of the container the edit sessions start from
Source0 ==
    <<PackageClause, LF, LF, ImportDecl, LF, LF, "var v", LF, LF,
      "func f1 {}", LF, LF, "func f2 {}", LF>>

\* the flags of loadConfig: the boolean flags, and for the string flags
\* whether they were given (prompt: whether config.Prompt is not empty after
\* -prompt, -inter and -promptFile)
Flags ==
    [prompt : BOOLEAN, merge : BOOLEAN, rm : BOOLEAN, split : BOOLEAN,
     unsplit : BOOLEAN, fixBuild : BOOLEAN, fixTests : BOOLEAN, retry : BOOLEAN,
     noGopart : BOOLEAN]

\* a process that has done nothing yet: its flags and its git branch; loads
\* counts the calls of loadConfig, fixes the requests fixBuild and fixTests
\* sent to the service, commits the git commits; build is the outcome of
\* the build in prompt; stale says units were changed and not recomposed
RunState(fl, br) ==
    [flags |-> fl, branch |-> br, loads |-> 0, fixes |-> 0, commits |-> 0,
     build |-> "none", stale |-> FALSE, merged |-> FALSE, pushed |-> FALSE,
     deleted |-> FALSE]

NoRun ==
    RunState([prompt |-> FALSE, merge |-> FALSE, rm |-> FALSE, split |-> FALSE,
              unsplit |-> FALSE, fixBuild |-> FALSE, fixTests |-> FALSE,
              retry |-> FALSE, noGopart |-> FALSE], "main")

NoScan ==
    [rawJSON |-> <<>>, pos |-> 0, depth |-> 0, inString |-> FALSE, escaped |-> FALSE,
     objectStarted |-> FALSE, validJSON |-> <<>>, broke |-> FALSE]

----------------------------------------------------------------------------
(* Actions.                                                                *)

\* RunGopilot with -split (or the automatic split of a run): splitGoFiles
Split ==
    /\ pc = "idle"
    /\ \E names \in MapOrders(IF /\ MainGo \in DOMAIN files
                                  /\ ParseOk(files[MainGo])
                                  /\ ~SlicePanics(files[MainGo])
                               THEN functions(files[MainGo]) ELSE <<>>) :
          LET r == splitGoFile(files, dirs, orders, MainGo, names) IN
          /\ dirs' = r.dirs
          /\ orders' = r.orders
          /\ files' = r.files
          /\ err' = r.err
          /\ pc' = IF r.err = "" THEN "idle" ELSE "exit"
    /\ UNCHANGED <<changes, idx, was, received, raw, scan, requests, run>>

\* unsplitGoFiles, as prompt and RunGopilot -unsplit call it
Unsplit ==
    /\ pc = "idle"
    /\ LET r == unsplitGoFiles(files, dirs, orders, EditorFiles(dirs)) IN
          /\ files' = r.files
          /\ err' = r.err
          /\ pc' = IF r.err = "" THEN "idle" ELSE "exit"
    /\ UNCHANGED <<dirs, orders, changes, idx, was, received, raw, scan, requests, run>>

\* generateChanges: the service's answer decodes to the change-set cs
GenerateChanges ==
    /\ pc = "idle"
    /\ \E cs \in ChangeSets(MaxRecords - received) :
          /\ cs # <<>>
          /\ changes' = cs
          /\ received' = received + Len(cs)
    /\ idx' = 1
    /\ was' = <<>>
    /\ pc' = "process"
    /\ UNCHANGED <<dirs, orders, files, err, raw, scan, requests, run>>

\* one iteration of the loop of processLocations
ProcessLocations ==
    /\ pc = "process"
    /\ orders' = processLocation(orders, dirs, changes[idx])
    /\ changes' = [changes EXCEPT ![idx].Content = removeInsertionPoint(@)]
    /\ was' = Append(was, orders)
    /\ idx' = IF idx < Len(changes) THEN idx + 1 ELSE 1
    /\ pc' = IF idx < Len(changes) THEN "process" ELSE "apply"
    /\ UNCHANGED <<dirs, files, received, err, raw, scan, requests, run>>

\* one iteration of the loop of applyChanges
ApplyChanges ==
    /\ pc = "apply"
    /\ dirs' = applyDirs(dirs, changes[idx])
    /\ orders' = applyOrders(orders, dirs, changes[idx])
    /\ files' = applyFiles(files, dirs, changes[idx])
    /\ idx' = IF idx < Len(changes) THEN idx + 1 ELSE 0
    /\ pc' = IF idx < Len(changes) THEN "apply" ELSE "idle"
    /\ UNCHANGED <<changes, was, received, err, raw, scan, requests, run>>

----------------------------------------------------------------------------
(* SpecEdit: edit sessions on a freshly decomposed container.              *)

InitEdit ==
    /\ pc = "idle"
    /\ \E names \in MapOrders(functions(Source0)) :
          LET r == splitGoFile(MainGo :> Source0, {<<".">>}, <<>>, MainGo, names) IN
          /\ dirs = r.dirs
          /\ orders = r.orders
          /\ files = r.files
    /\ changes = <<>>
    /\ idx = 0
    /\ was = <<>>
    /\ received = 0
    /\ err = ""
    /\ raw = <<>>
    /\ scan = NoScan
    /\ requests = 0
    /\ run = NoRun

NextEdit == GenerateChanges \/ ProcessLocations \/ ApplyChanges \/ Unsplit

SpecEdit == InitEdit /\ [][NextEdit]_vars

----------------------------------------------------------------------------
(* SpecSplit: decomposition and recomposition of a source file.            *)

\* a declaration with the comment line above it or the comment behind it,
\* if it has one
SourceItems ==
    {<<d>> : d \in DeclElems}
    \cup {<<EmbedComment, LF, "var v">>, <<DocComment, LF, "var v">>,
          <<DocComment, LF, "func f1 {}">>,
          <<"func f2 {}", CommentStart, CommentRest>>}

ItemDecl(item) == CHOOSE e \in Range(item) : e \in DeclElems

\* up to MaxDecls declarations, no declaration twice
SourceLists ==
    UNION {{l \in [1..k -> SourceItems] :
               \A i, j \in 1..k : ItemDecl(l[i]) = ItemDecl(l[j]) => i = j} :
           k \in 0..MaxDecls}

\* the text of a source file: the package clause, then the declarations a
\* blank line apart, with or without a line break at the end of the file
SourceText(items, endsWithBreak) ==
    <<PackageClause, LF, LF>> \o Join(items, <<LF, LF>>)
    \o (IF endsWithBreak THEN <<LF>> ELSE <<>>)

Sources == {SourceText(l, b) : l \in SourceLists, b \in BOOLEAN}

InitSplit ==
    /\ pc = "idle"
    /\ dirs = {<<".">>}
    /\ orders = <<>>
    /\ \E t \in Sources : files = (MainGo :> t)
    /\ changes = <<>>
    /\ idx = 0
    /\ was = <<>>
    /\ received = 0
    /\ err = ""
    /\ raw = <<>>
    /\ scan = NoScan
    /\ requests = 0
    /\ run = NoRun

NextSplit == Split \/ Unsplit

SpecSplit == InitSplit /\ [][NextSplit]_vars

----------------------------------------------------------------------------
(* JSON text, as encoding/json reads it.  Every character that matters to  *)
(* the grammar is an element of its own.                                   *)

QUOTE == "\""
BACKSLASH == "\\"
Punct == {"{", "}", "[", "]", ":", ","}

\* the number of backslashes directly before position j and after position i
RECURSIVE BackslashesBefore(_, _, _)
BackslashesBefore(t, j, i) ==
    IF j - 1 > i /\ t[j-1] = BACKSLASH THEN 1 + BackslashesBefore(t, j - 1, i) ELSE 0

\* the quote that closes the string literal opened at i: the first quote
\* after i with an even number of backslashes before it; Len(t) + 1 if the
\* literal is not closed
CloseOf(t, i) ==
    LET cs == {j \in (i+1)..Len(t) :
                  t[j] = QUOTE /\ BackslashesBefore(t, j, i) % 2 = 0}
    IN  IF cs = {} THEN Len(t) + 1 ELSE CHOOSE j \in cs : \A k \in cs : j <= k

\* the characters a string literal stands for (the escapes \", \\, \/ and
\* \n); control characters and unknown escapes are invalid
RECURSIVE Unescape(_)
Unescape(s) ==
    IF s = <<>> THEN [ok |-> TRUE, s |-> <<>>]
    ELSE IF s[1] \in {LF, NUL} THEN [ok |-> FALSE, s |-> <<>>]
    ELSE IF s[1] = BACKSLASH
         THEN IF Len(s) < 2 \/ s[2] \notin {QUOTE, BACKSLASH, Slash, "n"}
              THEN [ok |-> FALSE, s |-> <<>>]
              ELSE LET r == Unescape(SubSeq(s, 3, Len(s))) IN
                   [ok |-> r.ok, s |-> <<IF s[2] = "n" THEN LF ELSE s[2]>> \o r.s]
    ELSE LET r == Unescape(Tail(s)) IN [ok |-> r.ok, s |-> <<s[1]>> \o r.s]

\* the tokens of a text: string literals, punctuation and words
RECURSIVE Lex(_, _, _)
Lex(t, i, acc) ==
    IF i > Len(t) THEN [ok |-> TRUE, toks |-> acc]
    ELSE IF t[i] = QUOTE
         THEN LET j == CloseOf(t, i)
                  u == Unescape(SubSeq(t, i + 1, j - 1))
              IN  IF j > Len(t) \/ ~u.ok THEN [ok |-> FALSE, toks |-> acc]
                  ELSE Lex(t, j + 1, Append(acc, [k |-> "str", s |-> u.s]))
    ELSE IF t[i] \in Punct THEN Lex(t, i + 1, Append(acc, [k |-> "p", s |-> <<t[i]>>]))
    ELSE Lex(t, i + 1, Append(acc, [k |-> "w", s |-> <<t[i]>>]))

IsPunct(tk, i, c) == i <= Len(tk) /\ tk[i].k = "p" /\ tk[i].s = <<c>>

NoValue == [ok |-> FALSE, v |-> [k |-> "none", s |-> <<>>], next |-> 0]

\* the JSON value that starts at token i: a string, true, false, null, an
\* object (s: its members) or an array (s: its items)
RECURSIVE ParseValue(_, _)
RECURSIVE ParseMembers(_, _, _)
RECURSIVE ParseItems(_, _, _)
ParseValue(tk, i) ==
    IF i > Len(tk) THEN NoValue
    ELSE IF tk[i].k = "str"
         THEN [ok |-> TRUE, v |-> [k |-> "str", s |-> tk[i].s], next |-> i + 1]
    ELSE IF tk[i].k = "w"
         THEN IF tk[i].s \in {<<"true">>, <<"false">>}
              THEN [ok |-> TRUE, v |-> [k |-> "bool", s |-> tk[i].s], next |-> i + 1]
              ELSE IF tk[i].s = <<"null">>
              THEN [ok |-> TRUE, v |-> [k |-> "null", s |-> <<>>], next |-> i + 1]
              ELSE NoValue
    ELSE IF IsPunct(tk, i, "{")
         THEN IF IsPunct(tk, i + 1, "}")
              THEN [ok |-> TRUE, v |-> [k |-> "obj", s |-> <<>>], next |-> i + 2]
              ELSE ParseMembers(tk, i + 1, <<>>)
    ELSE IF IsPunct(tk, i, "[")
         THEN IF IsPunct(tk, i + 1, "]")
              THEN [ok |-> TRUE, v |-> [k |-> "arr", s |-> <<>>], next |-> i + 2]
              ELSE ParseItems(tk, i + 1, <<>>)
    ELSE NoValue

ParseMembers(tk, i, acc) ==
    IF ~(i <= Len(tk) /\ tk[i].k = "str" /\ IsPunct(tk, i + 1, ":")) THEN NoValue
    ELSE LET r == ParseValue(tk, i + 2) IN
         IF ~r.ok THEN NoValue
         ELSE LET acc1 == Append(acc, [key |-> tk[i].s, val |-> r.v]) IN
              IF IsPunct(tk, r.next, ",") THEN ParseMembers(tk, r.next + 1, acc1)
              ELSE IF IsPunct(tk, r.next, "}")
                   THEN [ok |-> TRUE, v |-> [k |-> "obj", s |-> acc1], next |-> r.next + 1]
              ELSE NoValue

ParseItems(tk, i, acc) ==
    LET r == ParseValue(tk, i) IN
    IF ~r.ok THEN NoValue
    ELSE LET acc1 == Append(acc, r.v) IN
         IF IsPunct(tk, r.next, ",") THEN ParseItems(tk, r.next + 1, acc1)
         ELSE IF IsPunct(tk, r.next, "]")
              THEN [ok |-> TRUE, v |-> [k |-> "arr", s |-> acc1], next |-> r.next + 1]
         ELSE NoValue

\* checkValid: the text is one JSON value and nothing else
ParseText(t) ==
    LET lx == Lex(t, 1, <<>>)
        r == ParseValue(lx.toks, 1)
    IN  IF lx.ok /\ r.ok /\ r.next = Len(lx.toks) + 1 THEN r ELSE NoValue

\* the zero value of FileContent
ZeroFileContent == FileContent(<<>>, <<>>, FALSE, <<>>, <<>>)

\* the members of an object decoded into a FileContent; a member whose value
\* has the wrong type leaves its field alone and is a type error
RECURSIVE decodeFields(_, _, _)
decodeFields(members, rec, bad) ==
    IF members = <<>> THEN [rec |-> rec, bad |-> bad]
    ELSE LET key == Head(members).key
             v == Head(members).val
             rest == Tail(members)
         IN  IF v.k = "null" THEN decodeFields(rest, rec, bad)
             ELSE IF key = <<"filepath">>
             THEN IF v.k = "str" THEN decodeFields(rest, [rec EXCEPT !.FilePath = v.s], bad)
                  ELSE decodeFields(rest, rec, TRUE)
             ELSE IF key = <<"content">>
             THEN IF v.k = "str" THEN decodeFields(rest, [rec EXCEPT !.Content = v.s], bad)
                  ELSE decodeFields(rest, rec, TRUE)
             ELSE IF key = <<"delete">>
             THEN IF v.k = "bool"
                  THEN decodeFields(rest, [rec EXCEPT !.Delete = (v.s = <<"true">>)], bad)
                  ELSE decodeFields(rest, rec, TRUE)
             ELSE IF key = <<"insert-before">>
             THEN IF v.k = "str"
                  THEN decodeFields(rest, [rec EXCEPT !.InsertBefore = v.s], bad)
                  ELSE decodeFields(rest, rec, TRUE)
             ELSE IF key = <<"insert-after">>
             THEN IF v.k = "str"
                  THEN decodeFields(rest, [rec EXCEPT !.InsertAfter = v.s], bad)
                  ELSE decodeFields(rest, rec, TRUE)
             ELSE decodeFields(rest, rec, bad)

\* the items of an array decoded into a []FileContent
decodeItems(items) ==
    LET d == [i \in 1..Len(items) |->
                 IF items[i].k = "obj" THEN decodeFields(items[i].s, ZeroFileContent, FALSE)
                 ELSE [rec |-> ZeroFileContent, bad |-> items[i].k # "null"]]
    IN  [recs |-> [i \in 1..Len(items) |-> d[i].rec],
         bad |-> \E i \in 1..Len(items) : d[i].bad]

\* a decoder that takes a single object for a list of one record
UnmarshalObjectAsList(t, cur) ==
    LET r == ParseText(t) IN
    IF ~r.ok THEN [err |-> "syntax", changes |-> cur]
    ELSE IF r.v.k = "null" THEN [err |-> "", changes |-> <<>>]
    ELSE IF r.v.k = "obj"
         THEN LET d == decodeItems(<<r.v>>) IN
              [err |-> IF d.bad THEN "type" ELSE "", changes |-> d.recs]
    ELSE IF r.v.k # "arr" THEN [err |-> "type", changes |-> cur]
    ELSE LET d == decodeItems(r.v.s) IN
         [err |-> IF d.bad THEN "type" ELSE "", changes |-> d.recs]

\* json.Unmarshal([]byte(t), &changes) where changes holds cur: a syntax
\* error leaves changes alone; a value that is not an array is a type error
\* and leaves changes alone; an array is decoded item by item
Unmarshal(t, cur) ==
    LET r == ParseText(t) IN
    IF ~r.ok THEN [err |-> "syntax", changes |-> cur]
    ELSE IF r.v.k = "null" THEN [err |-> "", changes |-> <<>>]
    ELSE IF r.v.k # "arr" THEN [err |-> "type", changes |-> cur]
    ELSE LET d == decodeItems(r.v.s) IN
         [err |-> IF d.bad THEN "type" ELSE "", changes |-> d.recs]

----------------------------------------------------------------------------
(* The answers of the generative service that parseChanges is given.       *)

\* a string written as a JSON string literal
Quoted(str) ==
    <<QUOTE>>
    \o Concat([i \in 1..Len(str) |->
                  IF str[i] \in {QUOTE, BACKSLASH} THEN <<BACKSLASH, str[i]>>
                  ELSE IF str[i] = LF THEN <<BACKSLASH, "n">>
                  ELSE <<str[i]>>])
    \o <<QUOTE>>

\* an edit record written as a JSON object, empty fields left out
Render(rec) ==
    <<"{">> \o Quoted(<<"filepath">>) \o <<":">> \o Quoted(rec.FilePath)
    \o (IF rec.Content # <<>>
        THEN <<",">> \o Quoted(<<"content">>) \o <<":">> \o Quoted(rec.Content)
        ELSE <<>>)
    \o (IF rec.Delete THEN <<",">> \o Quoted(<<"delete">>) \o <<":", "true">> ELSE <<>>)
    \o (IF rec.InsertBefore # <<>>
        THEN <<",">> \o Quoted(<<"insert-before">>) \o <<":">> \o Quoted(rec.InsertBefore)
        ELSE <<>>)
    \o (IF rec.InsertAfter # <<>>
        THEN <<",">> \o Quoted(<<"insert-after">>) \o <<":">> \o Quoted(rec.InsertAfter)
        ELSE <<>>)
    \o <<"}">>

\* a list of edit records written as a JSON array
RenderArray(recs) ==
    <<"[">> \o Join([i \in 1..Len(recs) |-> Render(recs[i])], <<",">>) \o <<"]">>

RecordA == FileContent(<<"a">>, <<"x">>, FALSE, <<>>, <<>>)
RecordB == FileContent(<<"b">>, <<"y">>, FALSE, <<>>, <<>>)
\* a record whose content holds braces, a quote and a backslash
RecordBraces == FileContent(<<"a">>, <<"{", QUOTE, "}", BACKSLASH>>, FALSE, <<>>, <<>>)
RecordDelete == FileContent(<<"a">>, <<>>, TRUE, <<>>, <<>>)
\* a record with a placement hint whose content has a marker line between
\* two other lines
RecordMarker ==
    FileContent(<<"c">>, <<"y", LF, BeforeMarker, LF, "z">>, FALSE, <<"f1">>, <<>>)

ScanRecords == {RecordA, RecordB, RecordBraces, RecordDelete, RecordMarker}

Arrays == UNION {[1..k -> ScanRecords] : k \in 0..MaxObjects}

Prefixes(t) == {SubSeq(t, 1, n) : n \in 0..Len(t)}

\* words around the array
Prose == {<<>>, <<"Here are the changes">>}

\* an array one of whose records has a nested object in an unknown field,
\* and an array whose record has a field of the wrong type
NestedText ==
    <<"[", "{">> \o Quoted(<<"filepath">>) \o <<":">> \o Quoted(<<"a">>) \o <<",">>
    \o Quoted(<<"meta">>) \o <<":", "{">> \o Quoted(<<"k">>) \o <<":">>
    \o Quoted(<<"}">>) \o <<"}", "}", "]">>

MistypedText ==
    <<"[", "{">> \o Quoted(<<"filepath">>) \o <<":">> \o Quoted(<<"a">>) \o <<",">>
    \o Quoted(<<"content">>) \o <<":", "true", "}", "]">>

\* an array whose record has a marker line in its content and "delete"
\* given as a string, and an array of strings
MistypedMarkerText ==
    <<"[", "{">> \o Quoted(<<"filepath">>) \o <<":">> \o Quoted(<<"a">>) \o <<",">>
    \o Quoted(<<"content">>) \o <<":">> \o Quoted(<<AfterMarker, LF, "x">>) \o <<",">>
    \o Quoted(<<"delete">>) \o <<":">> \o Quoted(<<"true">>) \o <<"}", "]">>

StringsText == <<"[">> \o Quoted(<<"a">>) \o <<"]">>

\* the raw texts: an array or the beginning of one, after some words or
\* none; a whole array with words after it
RawTexts ==
    {pre \o cut : pre \in Prose,
                  cut \in UNION {Prefixes(RenderArray(a)) : a \in Arrays}}
    \cup {pre \o RenderArray(a) \o post : pre \in Prose, a \in Arrays, post \in Prose}
    \cup {pre \o x : pre \in Prose,
                     x \in {NestedText, MistypedText, MistypedMarkerText, StringsText}}

----------------------------------------------------------------------------
(* parseChanges.                                                           *)

\* strings.Index(s, c) for a one-element c, counted from 1; 0 if c is not in s
Index(str, c) ==
    IF \E i \in 1..Len(str) : str[i] = c
    THEN CHOOSE i \in 1..Len(str) : str[i] = c /\ \A j \in 1..(i-1) : str[j] # c
    ELSE 0

\* a scan that ignores backslashes
scanCharNoEscape(sc) ==
    LET char == sc.rawJSON[sc.pos]
        branch == IF sc.inString THEN "string"
                  ELSE IF char = QUOTE THEN "quote"
                  ELSE IF char = "{" THEN "open"
                  ELSE IF char = "}" THEN "close"
                  ELSE "other"
        inString1 == IF branch = "string" THEN char # QUOTE ELSE branch = "quote"
        depth1 == CASE branch = "open" -> sc.depth + 1
                    [] branch = "close" -> sc.depth - 1
                    [] OTHER -> sc.depth
        started1 == sc.objectStarted \/ branch = "open"
    IN  [sc EXCEPT !.pos = @ + 1,
                   !.inString = inString1,
                   !.escaped = FALSE,
                   !.depth = depth1,
                   !.objectStarted = started1,
                   !.validJSON = IF started1 THEN Append(@, char) ELSE @,
                   !.broke = branch = "close" /\ depth1 = 0 /\ started1]

\* one iteration of "for _, char := range rawJSON": the locals after it;
\* broke tells that the iteration left the loop
scanChar(sc) ==
    LET char == sc.rawJSON[sc.pos]
        branch == IF sc.inString THEN "string"
                  ELSE IF char = QUOTE /\ ~sc.escaped THEN "quote"
                  ELSE IF char = "{" THEN "open"
                  ELSE IF char = "}" THEN "close"
                  ELSE "other"
        inString1 == IF branch = "string" THEN ~(~sc.escaped /\ char = QUOTE)
                     ELSE branch = "quote"
        escaped1 == IF branch = "string" THEN char = BACKSLASH /\ ~sc.escaped
                    ELSE sc.escaped
        depth1 == CASE branch = "open" -> sc.depth + 1
                    [] branch = "close" -> sc.depth - 1
                    [] OTHER -> sc.depth
        started1 == sc.objectStarted \/ branch = "open"
    IN  [sc EXCEPT !.pos = @ + 1,
                   !.inString = inString1,
                   !.escaped = escaped1,
                   !.depth = depth1,
                   !.objectStarted = started1,
                   !.validJSON = IF started1 THEN Append(@, char) ELSE @,
                   !.broke = branch = "close" /\ depth1 = 0 /\ started1]

\* where the caller of parseChanges goes on with the list parseChanges
\* returns: through processLocations if parseChanges ends with it, then
\* applyChanges
ReturnChanges(cs, located) ==
    /\ changes' = cs
    /\ was' = <<>>
    /\ idx' = IF cs = <<>> THEN 0 ELSE 1
    /\ pc' = IF cs = <<>> THEN "idle" ELSE IF located THEN "process" ELSE "apply"

\* parseChanges up to the character scan: the naive json.Unmarshal of the
\* whole text, then the search for "["
ParseChanges ==
    /\ pc = "parse"
    /\ LET r == Unmarshal(raw, <<>>)
           start == Index(raw, "[")
       IN  IF r.err = "" THEN ReturnChanges(r.changes, TRUE) /\ scan' = scan
           ELSE IF start = 0 THEN ReturnChanges(r.changes, FALSE) /\ scan' = scan
           ELSE /\ changes' = r.changes
                /\ scan' = [NoScan EXCEPT !.rawJSON = SubSeq(raw, start, Len(raw)),
                                          !.pos = 1]
                /\ pc' = "scan"
                /\ UNCHANGED <<idx, was>>
    /\ UNCHANGED <<dirs, orders, files, received, err, raw, requests, run>>

\* one iteration of the character scan
ScanStep ==
    /\ pc = "scan"
    /\ scan' = scanChar(scan)
    /\ pc' = IF scan'.broke \/ scan'.pos > Len(scan.rawJSON) THEN "scanned" ELSE "scan"
    /\ UNCHANGED <<dirs, orders, files, changes, idx, was, received, err, raw, requests, run>>

\* parseChanges after the scan: json.Unmarshal of the candidate, the
\* continuation request for what is left of the text, processLocations
ScanFinish ==
    /\ pc = "scanned"
    /\ LET r == Unmarshal(scan.validJSON, changes) IN
       IF scan.validJSON = <<>> THEN ReturnChanges(changes, FALSE) /\ requests' = requests
       ELSE IF r.err # "" THEN ReturnChanges(r.changes, FALSE) /\ requests' = requests
       ELSE IF Len(scan.validJSON) < Len(scan.rawJSON)
            THEN /\ requests' = requests + 1
                 /\ \E more \in Arrays : ReturnChanges(r.changes \o more, TRUE)
       ELSE ReturnChanges(r.changes, TRUE) /\ requests' = requests
    /\ UNCHANGED <<dirs, orders, files, received, err, raw, scan, run>>

----------------------------------------------------------------------------
(* SpecScan: parseChanges on one answer of the service, in an empty        *)
(* working directory.                                                      *)

InitScan ==
    /\ pc = "parse"
    /\ dirs = {<<".">>}
    /\ orders = <<>>
    /\ files = <<>>
    /\ changes = <<>>
    /\ idx = 0
    /\ was = <<>>
    /\ received = 0
    /\ err = ""
    /\ raw \in RawTexts
    /\ scan = NoScan
    /\ requests = 0
    /\ run = NoRun

NextScan == ParseChanges \/ ScanStep \/ ScanFinish \/ ProcessLocations \/ ApplyChanges

SpecScan == InitScan /\ [][NextScan]_vars

----------------------------------------------------------------------------
(* The process from main to its end.  The commands it runs (git, make, the *)
(* service) succeed or fail as they like.  The unit files are looked at    *)
(* only so far as run.stale tells: a change-set was applied to them and    *)
(* they have not been recomposed since.                                    *)

fsVars == <<dirs, orders, files, changes, idx, was, received, raw, scan, requests>>

\* log.Fatal, a panic, or os.Exit after a failure
Exit(msg) == pc' = "exit" /\ err' = msg

Goto(p) == pc' = p /\ err' = err

\* currentSession.Requests as far as the model counts it
Count(n) == IF n < MaxFixes THEN n + 1 ELSE n

\* where loadConfig goes after flag.Parse
afterLoadConfig(fl) ==
    IF fl.merge /\ ~fl.prompt THEN "merge"
    ELSE IF fl.rm /\ ~fl.prompt THEN "remove"
    ELSE IF ~fl.prompt /\ ~fl.rm /\ ~fl.split /\ ~fl.unsplit /\ ~fl.fixBuild /\ ~fl.fixTests
         THEN "exit"
    ELSE "run"

\* a prompt that commits whatever the build said
afterBuildCommitAnyway(ok) == "commit"

\* where prompt goes after buildSucceeds
afterBuild(ok) == IF ok THEN "commit" ELSE "fixBuild"

\* where fixBuild goes after the build that follows its changes
afterRebuild(ok, retry) == IF ok \/ ~retry THEN "done" ELSE "fixBuild"

\* a cleanup that goes on after a failed push
afterPushIgnoringFailure(ok) == "merge.delete"

\* where mergeAndCleanup goes after git push
afterPush(ok) == IF ok THEN "merge.delete" ELSE "exit"

\* main: the first call of loadConfig
LoadConfig ==
    /\ pc = "main"
    /\ run' = [run EXCEPT !.loads = @ + 1]
    /\ \E envOk \in BOOLEAN :
          IF ~envOk THEN Exit("Missing required environment variables")
          ELSE IF afterLoadConfig(run.flags) = "exit"
               THEN Exit("Prompt is required or use -fix-build or -fix-tests flag")
          ELSE Goto(afterLoadConfig(run.flags))
    /\ UNCHANGED fsVars

\* RunGopilot up to the call of fixBuild, fixTests or prompt
RunGopilot ==
    /\ pc = "run"
    /\ \E ok \in BOOLEAN :
          IF run.flags.split
          THEN /\ (IF ok THEN Goto("done") ELSE Exit("splitGoFile"))
               /\ run' = run
          ELSE IF run.flags.unsplit
          THEN /\ (IF ok THEN Goto("done") ELSE Exit("unsplitGoFile"))
               /\ run' = [run EXCEPT !.stale = IF ok THEN FALSE ELSE @]
          ELSE IF ~run.flags.noGopart /\ ~ok
          THEN Exit("splitGoFile") /\ run' = run
          ELSE /\ Goto(IF run.flags.fixBuild THEN "fixBuild"
                       ELSE IF run.flags.fixTests THEN "fixTests"
                       ELSE IF run.flags.prompt THEN "prompt"
                       ELSE "done")
               /\ run' = run
    /\ UNCHANGED fsVars

\* prompt up to buildSucceeds: the branch, generateChanges, applyChanges,
\* unsplitGoFiles
Prompt ==
    /\ pc = "prompt"
    /\ \E apiOk, nonEmpty, unsplitOk \in BOOLEAN :
          IF ~apiOk THEN Exit("service") /\ run' = [run EXCEPT !.branch = "feature"]
          ELSE IF run.flags.noGopart
          THEN /\ Goto("build")
               /\ run' = [run EXCEPT !.branch = "feature", !.stale = @ \/ nonEmpty]
          ELSE IF ~unsplitOk
          THEN /\ Exit("unsplitGoFile")
               /\ run' = [run EXCEPT !.branch = "feature", !.stale = @ \/ nonEmpty]
          ELSE /\ Goto("build")
               /\ run' = [run EXCEPT !.branch = "feature", !.stale = FALSE]
    /\ UNCHANGED fsVars

\* prompt: buildSucceeds
Build ==
    /\ pc = "build"
    /\ \E ok \in BOOLEAN :
          /\ run' = [run EXCEPT !.build = IF ok THEN "ok" ELSE "failed"]
          /\ Goto(afterBuild(ok))
    /\ UNCHANGED fsVars

\* prompt: commitChanges
Commit ==
    /\ pc = "commit"
    /\ \E ok \in BOOLEAN :
          IF ok
          THEN /\ run' = [run EXCEPT !.commits = @ + 1]
               /\ Goto(IF run.flags.merge THEN "merge" ELSE "done")
          ELSE Exit("git commit") /\ run' = run
    /\ UNCHANGED fsVars

\* fixBuild: make build
FixBuildMake ==
    /\ pc = "fixBuild"
    /\ \E ok \in BOOLEAN : Goto(IF ok THEN "done" ELSE "fixBuild.apply")
    /\ UNCHANGED <<run, fsVars>>

\* fixBuild: generateChanges and applyChanges
FixBuildApply ==
    /\ pc = "fixBuild.apply"
    /\ \E apiOk, nonEmpty \in BOOLEAN :
          IF apiOk
          THEN /\ run' = [run EXCEPT !.fixes = Count(@), !.stale = @ \/ nonEmpty]
               /\ Goto("fixBuild.rebuild")
          ELSE /\ run' = [run EXCEPT !.fixes = Count(@)]
               /\ Exit("service")
    /\ UNCHANGED fsVars

\* fixBuild: buildSucceeds after the changes
FixBuildRebuild ==
    /\ pc = "fixBuild.rebuild"
    /\ \E ok \in BOOLEAN : Goto(afterRebuild(ok, run.flags.retry))
    /\ UNCHANGED <<run, fsVars>>

\* fixTests: make test
FixTestsMake ==
    /\ pc = "fixTests"
    /\ \E ok \in BOOLEAN : Goto(IF ok THEN "done" ELSE "fixTests.apply")
    /\ UNCHANGED <<run, fsVars>>

\* fixTests: generateChanges and applyChanges
FixTestsApply ==
    /\ pc = "fixTests.apply"
    /\ \E apiOk, nonEmpty \in BOOLEAN :
          IF apiOk
          THEN /\ run' = [run EXCEPT !.fixes = Count(@), !.stale = @ \/ nonEmpty]
               /\ Goto("fixTests.retest")
          ELSE /\ run' = [run EXCEPT !.fixes = Count(@)]
               /\ Exit("service")
    /\ UNCHANGED fsVars

\* fixTests: make test after the changes
FixTestsRetest ==
    /\ pc = "fixTests.retest"
    /\ \E ok \in BOOLEAN : Goto(IF ok THEN "done" ELSE "fixTests")
    /\ UNCHANGED <<run, fsVars>>

\* mergeAndCleanup: the branch name and git status --porcelain
MergeStatus ==
    /\ pc = "merge"
    /\ IF run.branch = "main" THEN Exit("Cannot delete main branch.")
       ELSE \E out \in {"error", "clean", "dirty"} :
               CASE out = "error" -> Exit("git status")
                 [] out = "clean" -> Goto("merge.checkout")
                 [] out = "dirty" -> Goto("merge.commit")
    /\ UNCHANGED <<run, fsVars>>

\* mergeAndCleanup with uncommitted changes: git add, loadConfig,
\* generateCommitMessage, git commit; flag.StringVar panics when the flags
\* are registered already
MergeCommit ==
    /\ pc = "merge.commit"
    /\ \E addOk, commitOk \in BOOLEAN :
          IF ~addOk THEN Exit("git add") /\ run' = run
          ELSE IF run.loads > 0
          THEN /\ run' = [run EXCEPT !.loads = @ + 1]
               /\ Exit("flag redefined: files")
          ELSE IF ~commitOk
          THEN /\ run' = [run EXCEPT !.loads = @ + 1]
               /\ Exit("git commit")
          ELSE /\ run' = [run EXCEPT !.loads = @ + 1, !.commits = @ + 1]
               /\ Goto("merge.checkout")
    /\ UNCHANGED fsVars

\* mergeAndCleanup: git checkout main
MergeCheckout ==
    /\ pc = "merge.checkout"
    /\ \E ok \in BOOLEAN :
          IF ok THEN Goto("merge.merge") ELSE Exit("git checkout")
    /\ UNCHANGED <<run, fsVars>>

\* mergeAndCleanup: git merge
MergeMerge ==
    /\ pc = "merge.merge"
    /\ \E ok \in BOOLEAN :
          IF ok THEN Goto("merge.push") /\ run' = [run EXCEPT !.merged = TRUE]
          ELSE Exit("git merge") /\ run' = run
    /\ UNCHANGED fsVars

\* mergeAndCleanup: git push
MergePush ==
    /\ pc = "merge.push"
    /\ \E ok \in BOOLEAN :
          /\ run' = [run EXCEPT !.pushed = ok]
          /\ IF afterPush(ok) = "exit" THEN Exit("git push") ELSE Goto(afterPush(ok))
    /\ UNCHANGED fsVars

\* mergeAndCleanup: git branch -D
MergeDelete ==
    /\ pc = "merge.delete"
    /\ \E ok \in BOOLEAN :
          IF ok THEN Goto("done") /\ run' = [run EXCEPT !.deleted = TRUE]
          ELSE Exit("git branch -D") /\ run' = run
    /\ UNCHANGED fsVars

\* removeAndCleanup: git stash, git checkout main, git branch -D
Remove ==
    /\ pc = "remove"
    /\ IF run.branch = "main" THEN Exit("Cannot delete main branch.") /\ run' = run
       ELSE \E stashOk, checkoutOk, deleteOk \in BOOLEAN :
               IF stashOk /\ checkoutOk /\ deleteOk
               THEN Goto("done") /\ run' = [run EXCEPT !.deleted = TRUE]
               ELSE Exit("git") /\ run' = run
    /\ UNCHANGED fsVars

InitRun ==
    /\ pc = "main"
    /\ dirs = {<<".">>}
    /\ orders = <<>>
    /\ files = <<>>
    /\ changes = <<>>
    /\ idx = 0
    /\ was = <<>>
    /\ received = 0
    /\ err = ""
    /\ raw = <<>>
    /\ scan = NoScan
    /\ requests = 0
    /\ \E fl \in Flags, br \in {"main", "feature"} : run = RunState(fl, br)

NextRun ==
    \/ LoadConfig \/ RunGopilot \/ Prompt \/ Build \/ Commit
    \/ FixBuildMake \/ FixBuildApply \/ FixBuildRebuild
    \/ FixTestsMake \/ FixTestsApply \/ FixTestsRetest
    \/ MergeStatus \/ MergeCommit \/ MergeCheckout \/ MergeMerge \/ MergePush
    \/ MergeDelete \/ Remove

\* the process is one thread that runs on until it ends
SpecRun == InitRun /\ [][NextRun]_vars /\ WF_vars(NextRun)

----------------------------------------------------------------------------
(* Properties of the reconciler and of composition, under SpecEdit.        *)

\* the sequence s without its i-th element
Without(s, i) == SubSeq(s, 1, i - 1) \o SubSeq(s, i + 1, Len(s))

NoDuplicates(s) == \A i, j \in 1..Len(s) : s[i] = s[j] => i = j

\* C1 (manifest integrity): whenever a change-set has been reconciled and
\* applied to the freshly decomposed container, every id of the container's
\* splitorder.json names a unit file that exists in the container, and no
\* id occurs in it twice.
ManifestIntegrity ==
    pc = "idle" =>
        /\ missingParts(files, MainDir, orders[MainDir]) = {}
        /\ NoDuplicates(orders[MainDir])

\* C4 (insertion placement): when processLocations reconciles a non-delete
\* record whose unit id is not in the manifest and which carries exactly one
\* placement hint X whose unit X.gopart is in the manifest, the manifest
\* after the step is the manifest before it with the new id put in
\* immediately before X (insert-before) or immediately after X
\* (insert-after); the entries already present keep their order.
InsertionPlacement ==
    [][ProcessLocations =>
        LET c == changes[idx]
            d == Dir(c.FilePath)
            id == Base(c.FilePath)
            isBefore == c.InsertBefore # <<>>
            X == (IF isBefore THEN c.InsertBefore ELSE c.InsertAfter) \o <<GopartExt>>
        IN  (/\ ~c.Delete
             /\ d \in DOMAIN orders
             /\ ~contains(orders[d], id)
             /\ (c.InsertBefore # <<>>) # (c.InsertAfter # <<>>)
             /\ contains(orders[d], X))
            => \E i \in 1..Len(orders'[d]) :
                  /\ orders'[d][i] = id
                  /\ Without(orders'[d], i) = orders[d]
                  /\ IF isBefore
                     THEN i < Len(orders'[d]) /\ orders'[d][i+1] = X
                     ELSE i > 1 /\ orders'[d][i-1] = X]_vars

\* C4 happens: the manifest [imports, varsandstructs, f1, f2] has become
\* [imports, varsandstructs, f1, f3, f2] by a record for f3 with insert-before f2
InsertionPlacementReached ==
    /\ was # <<>>
    /\ was[Len(was)][MainDir] =
          <<ImportsPart, VarsPart, <<"f1", GopartExt>>, <<"f2", GopartExt>> >>
    /\ changes[Len(was)].FilePath = UnitPath(MainDir, "f3")
    /\ changes[Len(was)].InsertBefore = <<"f2">>
    /\ changes[Len(was)].InsertAfter = <<>>
    /\ orders[MainDir] =
          <<ImportsPart, VarsPart, <<"f1", GopartExt>>, <<"f3", GopartExt>>,
            <<"f2", GopartExt>> >>

\* C5 (deletion): once a change-set has been reconciled and applied, a
\* delete record of it whose unit id was in the manifest when the record was
\* reconciled (and whose unit no later record of the change-set names) has
\* left the manifest without that id and the store without that unit.
DeletionRemoves ==
    (pc = "idle" /\ was # <<>>) =>
        \A i \in 1..Len(changes) :
            LET c == changes[i]
                d == Dir(c.FilePath)
            IN  (/\ c.Delete
                 /\ d \in DOMAIN was[i]
                 /\ contains(was[i][d], Base(c.FilePath))
                 /\ \A j \in (i+1)..Len(changes) : changes[j].FilePath # c.FilePath)
                => /\ ~contains(orders[d], Base(c.FilePath))
                   /\ c.FilePath \notin DOMAIN files

\* the file unsplitGoFile is to write for a container whose units are all there
Composable(f) ==
    /\ BaseDirOf(f) \in DOMAIN orders
    /\ missingParts(files, BaseDirOf(f), orders[BaseDirOf(f)]) = {}

\* C6 (composition order), with the removal of NUL characters the claim
\* leaves out: a composition that succeeds writes, for every container, the
\* contents of the units its manifest names, in manifest order, one copy per
\* entry, joined by one blank-line separator, with every NUL character
\* removed, and nothing else.
CompositionOrder ==
    [][(Unsplit /\ err' = "") =>
        \A k \in 1..Len(EditorFiles(dirs)) :
            LET f == EditorFiles(dirs)[k]
                d == BaseDirOf(f)
            IN  /\ f \in DOMAIN files'
                /\ files'[f] =
                      SelectSeq(Join([i \in 1..Len(orders[d]) |->
                                         files[PathJoin(d, orders[d][i])]], <<LF, LF>>),
                                LAMBDA e : e # NUL)]_vars

\* C6 as the claim states it: the output is the units' contents joined by
\* the separator, nothing added and nothing taken away
CompositionOrderVerbatim ==
    [][(Unsplit /\ err' = "") =>
        \A k \in 1..Len(EditorFiles(dirs)) :
            LET f == EditorFiles(dirs)[k]
                d == BaseDirOf(f)
            IN  /\ f \in DOMAIN files'
                /\ files'[f] =
                      Join([i \in 1..Len(orders[d]) |->
                               files[PathJoin(d, orders[d][i])]], <<LF, LF>>)]_vars

\* C6 happens: main.go has been composed from an edited container, one of
\* whose units holds a NUL character
CompositionOrderReached ==
    /\ pc = "idle"
    /\ received > 0
    /\ Composable(MainGo)
    /\ \E i \in 1..Len(orders[MainDir]) :
          NUL \in Range(files[PathJoin(MainDir, orders[MainDir][i])])
    /\ files[MainGo] # Source0
    /\ files[MainGo] = combineParts(readParts(files, MainDir, orders[MainDir]))

\* C7 (missing unit at composition): when unsplitGoFiles comes to a
\* container one of whose manifest entries has no unit file, the run ends
\* with an error and the container's source file is left as it was.
MissingUnitStops ==
    [][Unsplit =>
        \A k \in 1..Len(EditorFiles(dirs)) :
            LET f == EditorFiles(dirs)[k]
                d == BaseDirOf(f)
            IN  (d \in DOMAIN orders /\ missingParts(files, d, orders[d]) # {})
                => /\ err' # ""
                   /\ pc' = "exit"
                   /\ (f \in DOMAIN files') = (f \in DOMAIN files)
                   /\ f \in DOMAIN files => files'[f] = files[f]]_vars

\* C7 happens: a composition has ended on a manifest entry without a unit file
MissingUnitStopsReached ==
    /\ pc = "exit"
    /\ err = "no unit file"
    /\ \E d \in DOMAIN orders : missingParts(files, d, orders[d]) # {}

----------------------------------------------------------------------------
(* Properties of decomposition, under SpecSplit.                           *)

\* the declarations of a text, in source order
Decls(t) == SelectSeq(t, LAMBDA e : e \in DeclElems)

\* the function declarations of a text, in source order
FuncDecls(t) == SelectSeq(t, LAMBDA e : e \in DeclElems /\ DeclTok[e] = "FUNC")

\* a step of splitGoFile that decomposed main.go
SplitDone == Split /\ err' = ""

\* the container is what splitGoFile makes of the main.go that is there
IsDecomposed ==
    /\ MainGo \in DOMAIN files
    /\ ParseOk(files[MainGo])
    /\ ~SlicePanics(files[MainGo])
    /\ \E names \in MapOrders(functions(files[MainGo])) :
          LET r == splitGoFile(files, dirs, orders, MainGo, names) IN
          r.err = "" /\ r.dirs = dirs /\ r.orders = orders /\ r.files = files

\* C8 (initial manifest order): the manifest splitGoFile writes for a file
\* whose functions have names of their own is imports.gopart,
\* varsandstructs.gopart and then the units of the functions in the order
\* in which the functions appear in the source.
InitialManifestOrder ==
    [][SplitDone =>
        LET fs == FuncDecls(files[MainGo]) IN
        (\A i, j \in 1..Len(fs) : FuncName(fs[i]) = FuncName(fs[j]) => i = j) =>
        orders'[MainDir] =
            <<ImportsPart, VarsPart>>
            \o [k \in 1..Len(fs) |-> <<FuncName(fs[k]), GopartExt>>]]_vars

\* C9 (round trip): composing the container that splitGoFile made of a
\* source file gives a source file with the same declarations in the same
\* order.
RoundTrip ==
    [][(IsDecomposed /\ Unsplit /\ err' = "") =>
        Decls(files'[MainGo]) = Decls(files[MainGo])]_vars

\* C10 (one unit per function): after splitGoFile every function or method
\* of the source has a unit of its own in the manifest, holding its text.
OneUnitPerFunction ==
    [][SplitDone =>
        LET fs == FuncDecls(files[MainGo])
            m == orders'[MainDir]
        IN  \E u \in [1..Len(fs) -> 3..Len(m)] :
               /\ \A i, j \in 1..Len(fs) : u[i] = u[j] => i = j
               /\ \A i \in 1..Len(fs) :
                     /\ PathJoin(MainDir, m[u[i]]) \in DOMAIN files'
                     /\ fs[i] \in Range(files'[PathJoin(MainDir, m[u[i]])])]_vars

----------------------------------------------------------------------------
(* Properties of the extractor, under SpecScan.                            *)

\* the text of the truncated answer: an array of the records a/x and b/y
\* cut off before the brace that closes the second record
TruncatedAnswer ==
    LET t == RenderArray(<<RecordA, RecordB>>) IN SubSeq(t, 1, Len(t) - 2)

\* parseChanges has returned
Parsed == pc \notin {"parse", "scan", "scanned"}

\* C2 (partial recovery): of the truncated answer parseChanges recovers the
\* record a/x, hands what is left of the text to a continuation request,
\* does not abort, and has no record for b from the truncated text.
PartialRecovery ==
    (raw = TruncatedAnswer /\ Parsed) =>
        /\ changes # <<>>
        /\ changes[1].FilePath = <<"a">>
        /\ changes[1].Content = <<"x">>
        /\ requests = 1
        /\ err = ""

\* position p of t lies inside a string literal: after the opening quote
\* of a literal that starts at or after position from, before its closing
\* quote
RECURSIVE InLiteral(_, _, _)
InLiteral(t, p, from) ==
    LET qs == {i \in from..(p - 1) : t[i] = QUOTE} IN
    IF qs = {} THEN FALSE
    ELSE LET i == CHOOSE q \in qs : \A r \in qs : q <= r
             j == CloseOf(t, i)
         IN  IF p < j THEN TRUE
             ELSE IF p = j THEN FALSE
             ELSE InLiteral(t, p, j + 1)

\* the braces of t between a and b that are not inside a string literal
BracesIn(t, c, a, b) ==
    Cardinality({p \in a..b : t[p] = c /\ ~InLiteral(t, p, 1)})

\* the positions at which the first top-level object of t is closed
ClosingPositions(t) ==
    LET opens == {p \in 1..Len(t) : t[p] = "{" /\ ~InLiteral(t, p, 1)} IN
    IF opens = {} THEN {}
    ELSE LET first == CHOOSE p \in opens : \A q \in opens : p <= q IN
         {e \in first..Len(t) :
             /\ t[e] = "}"
             /\ ~InLiteral(t, e, 1)
             /\ BracesIn(t, "{", first, e) = BracesIn(t, "}", first, e)}

\* the first top-level object of a text that has one
FirstObject(t) ==
    LET first == CHOOSE p \in 1..Len(t) :
                    /\ t[p] = "{" /\ ~InLiteral(t, p, 1)
                    /\ \A q \in 1..(p-1) : ~(t[q] = "{" /\ ~InLiteral(t, q, 1))
        last == CHOOSE e \in ClosingPositions(t) : \A f \in ClosingPositions(t) : e <= f
    IN  SubSeq(t, first, last)

\* C3 (string-literal safety): a step of the character scan that reads a
\* brace inside a string literal leaves the depth counter as it is, and when
\* the scan ends on a text that has a first top-level object, the candidate
\* buffer is that object, which is one complete JSON object.
StringLiteralSafety ==
    [][ScanStep =>
        /\ (/\ scan.rawJSON[scan.pos] \in {"{", "}"}
            /\ InLiteral(scan.rawJSON, scan.pos, 1))
           => scan'.depth = scan.depth
        /\ (pc' = "scanned" /\ ClosingPositions(scan.rawJSON) # {})
           => /\ scan'.validJSON = FirstObject(scan.rawJSON)
              /\ ParseText(scan'.validJSON).ok
              /\ ParseText(scan'.validJSON).v.k = "obj"]_vars

\* C3 happens: the scan has ended on an answer whose first record holds
\* braces, an escaped quote and an escaped backslash inside a string literal
StringLiteralSafetyReached ==
    /\ pc = "scanned"
    /\ scan.broke
    /\ scan.validJSON = Render(RecordBraces)
    /\ Len(scan.validJSON) < Len(scan.rawJSON)

\* the answer is one the naive json.Unmarshal reads without error, and the
\* records it reads from it
FastPath == Unmarshal(raw, <<>>).err = ""

Decoded == Unmarshal(raw, <<>>).changes

\* a line that is a placement marker
IsMarkerLine(line) == line # <<>> /\ line[1] \in {BeforeMarker, AfterMarker}

\* a content without its marker lines
WithoutMarkerLines(content) ==
    Join(SelectSeq(SplitString(content, LF), LAMBDA l : ~IsMarkerLine(l)), <<LF>>)

\* C11 (fast path), with the removal of marker lines the claim leaves out:
\* of an answer that parses directly as an array parseChanges returns the
\* records of the array, in the same order, none added or dropped, each as
\* it was parsed but for the marker lines taken out of its content, and it
\* makes no continuation request.
FastPathReturns ==
    (FastPath /\ pc \in {"apply", "idle"}) =>
        /\ Len(changes) = Len(Decoded)
        /\ \A i \in 1..Len(changes) :
              changes[i] = [Decoded[i] EXCEPT !.Content = WithoutMarkerLines(@)]
        /\ requests = 0

\* C11 as the claim states it: the list returned is the parsed list, unchanged
FastPathUnchanged ==
    (FastPath /\ pc \in {"apply", "idle"}) =>
        /\ changes = Decoded
        /\ requests = 0

\* C11 happens: parseChanges has returned the two records of an array that
\* parsed directly, the second of which had a marker line in its content
FastPathReturnsReached ==
    /\ FastPath
    /\ pc = "apply"
    /\ Decoded = <<RecordA, RecordMarker>>
    /\ changes[1] = RecordA
    /\ changes[2].Content = <<"y", LF, "z">>

\* of the answer "words, then a well-formed array" the records of the array
ProseArrays ==
    {a \in Arrays : a # <<>> /\ \E pre \in Prose : pre # <<>> /\ raw = pre \o RenderArray(a)}

\* C12 (prose before the array): of an answer that is words without "["
\* followed by a well-formed array of records, parseChanges returns a list
\* that is not empty and starts with the first record of the array.
ProseBeforeArray ==
    (Parsed /\ ProseArrays # {}) =>
        /\ changes # <<>>
        /\ \A a \in ProseArrays : changes[1].FilePath = a[1].FilePath

\* parseChanges has returned its list to generateChanges
Returned == pc \in {"apply", "idle"}

\* C13 (empty result): when the answer has no "[", or the candidate buffer
\* of the scan is not a well-formed JSON text, parseChanges returns an empty
\* list, does not abort, makes no continuation request and changes no
\* manifest.
EmptyResult ==
    (/\ Returned
     /\ \/ Index(raw, "[") = 0
        \/ scan.rawJSON # <<>> /\ ~ParseText(scan.validJSON).ok)
    => /\ changes = <<>>
       /\ err = ""
       /\ requests = 0
       /\ orders = <<>>

\* C17 (markers do not leak): no line of the content of a record that
\* parseChanges has returned is a placement marker line.
MarkersDoNotLeak ==
    Returned =>
        \A i \in 1..Len(changes) :
            LET lines == SplitString(changes[i].Content, LF) IN
            \A k \in 1..Len(lines) : ~IsMarkerLine(lines[k])

----------------------------------------------------------------------------
(* Further properties of the reconciler, under SpecEdit.                   *)

\* the record processLocations is at names a placement target that is in
\* the manifest of its directory
HintApplies(c) ==
    LET m == orders[Dir(c.FilePath)] IN
    \/ c.InsertBefore # <<>> /\ contains(m, c.InsertBefore \o <<GopartExt>>)
    \/ c.InsertAfter # <<>> /\ contains(m, c.InsertAfter \o <<GopartExt>>)

\* C14 (in-place replacement): when processLocations reconciles a
\* non-delete record whose unit id is in the manifest and no hint of which
\* names an id of the manifest, the manifest stays as it is.
InPlaceReplacement ==
    [][ProcessLocations =>
        LET c == changes[idx]
            d == Dir(c.FilePath)
        IN  (/\ ~c.Delete
             /\ d \in DOMAIN orders
             /\ contains(orders[d], Base(c.FilePath))
             /\ ~HintApplies(c))
            => orders' = orders]_vars

\* C15 (append at end): when processLocations reconciles a non-delete
\* record whose unit id is not in the manifest and no hint of which names an
\* id of the manifest, the process goes on and the manifest after the step
\* is the manifest before it with the unit id added as its last entry.
AppendAtEnd ==
    [][ProcessLocations =>
        LET c == changes[idx]
            d == Dir(c.FilePath)
        IN  (/\ ~c.Delete
             /\ d \in DOMAIN orders
             /\ ~contains(orders[d], Base(c.FilePath))
             /\ ~HintApplies(c))
            => /\ orders' = [orders EXCEPT ![d] = Append(@, Base(c.FilePath))]
               /\ pc' \in {"process", "apply"}
               /\ err' = ""]_vars

\* C15 happens: a record for the new unit f3 whose hint names zz, which is
\* in no manifest, has been reconciled
AppendAtEndReached ==
    /\ was # <<>>
    /\ changes[Len(was)].FilePath = UnitPath(MainDir, "f3")
    /\ ~changes[Len(was)].Delete
    /\ changes[Len(was)].InsertBefore = <<"zz">>
    /\ changes[Len(was)].InsertAfter = <<>>
    /\ ~contains(was[Len(was)][MainDir], <<"f3", GopartExt>>)
    /\ orders[MainDir] = Append(was[Len(was)][MainDir], <<"f3", GopartExt>>)

\* C16 (deleting a nonexistent unit): when processLocations reconciles a
\* delete record whose unit is neither in the manifest nor in the store, the
\* manifest stays as it is.
DeleteNonexistentNoOp ==
    [][ProcessLocations =>
        LET c == changes[idx]
            d == Dir(c.FilePath)
        IN  (/\ c.Delete
             /\ d \in DOMAIN orders
             /\ ~contains(orders[d], Base(c.FilePath))
             /\ c.FilePath \notin DOMAIN files)
            => orders' = orders]_vars

----------------------------------------------------------------------------
(* Decomposition of a recomposed file, under SpecSplit.                    *)

\* main.go is what unsplitGoFile makes of the container that is there
Recomposed ==
    /\ MainDir \in DOMAIN orders
    /\ missingParts(files, MainDir, orders[MainDir]) = {}
    /\ MainGo \in DOMAIN files
    /\ files[MainGo] = combineParts(readParts(files, MainDir, orders[MainDir]))

\* C18 (idempotence of decomposition): splitGoFile on a main.go that was
\* decomposed and then recomposed succeeds and gives a manifest with the
\* same set of unit ids and units with the same contents as the
\* decomposition before.
IdempotentDecomposition ==
    [][(Recomposed /\ Split) =>
        /\ err' = ""
        /\ Range(orders'[MainDir]) = Range(orders[MainDir])
        /\ \A id \in Range(orders[MainDir]) :
              files'[PathJoin(MainDir, id)] = files[PathJoin(MainDir, id)]]_vars

\* C19 (decompose failure): splitGoFile on a main.go that does not parse
\* ends the process and leaves the directories, the manifests and the files
\* as they are: no container is created, a container that exists is not
\* touched.
ParseFailureWritesNothing ==
    [][(Split /\ MainGo \in DOMAIN files /\ ~ParseOk(files[MainGo])) =>
        /\ err' = "parse"
        /\ pc' = "exit"
        /\ dirs' = dirs
        /\ orders' = orders
        /\ files' = files]_vars

\* splitGoFile has stopped at a main.go that does not parse, beside the
\* container of an earlier decomposition
ParseFailureWritesNothingReached ==
    /\ pc = "exit"
    /\ err = "parse"
    /\ ~ParseOk(files[MainGo])
    /\ MainDir \in dirs
    /\ MainDir \in DOMAIN orders
    /\ Len(orders[MainDir]) > 2

----------------------------------------------------------------------------
(* The continuation chain, under SpecScan.                                 *)

\* the number of steps parseChanges and the loops of its caller still have
\* to take at most
Remaining ==
    CASE pc = "parse" -> 2 * Len(raw) + 4
      [] pc = "scan" -> 2 * Len(changes) + (Len(scan.rawJSON) - scan.pos) + 3
      [] pc = "scanned" -> 2 * Len(changes) + 1
      [] pc = "process" -> 2 * Len(changes) - idx + 1
      [] pc = "apply" -> Len(changes) - idx + 1
      [] OTHER -> 0

----------------------------------------------------------------------------
(* Placement inside one change-set, under SpecEdit.                        *)

\* C25 (rule precedence): when processLocations reconciles a non-delete
\* record for a new unit that carries both hints, insert-before naming an id
\* that is not in the manifest and insert-after naming an id Y that is, the
\* unit id is put in immediately after Y.
RulePrecedence ==
    [][ProcessLocations =>
        LET c == changes[idx]
            d == Dir(c.FilePath)
            id == Base(c.FilePath)
            Y == c.InsertAfter \o <<GopartExt>>
        IN  (/\ ~c.Delete
             /\ d \in DOMAIN orders
             /\ ~contains(orders[d], id)
             /\ c.InsertBefore # <<>>
             /\ ~contains(orders[d], c.InsertBefore \o <<GopartExt>>)
             /\ c.InsertAfter # <<>>
             /\ contains(orders[d], Y))
            => \E i \in 2..Len(orders'[d]) :
                  /\ orders'[d][i] = id
                  /\ orders'[d][i-1] = Y
                  /\ Without(orders'[d], i) = orders[d]]_vars

\* C26 (hints inside one change-set): when processLocations reconciles a
\* non-delete record for a new unit whose one hint names a unit X that was
\* not in the manifest before the change-set and that an earlier record of
\* the change-set has brought in, the unit id is put in immediately before X
\* (insert-before) or immediately after X (insert-after), and the other
\* entries stay as the earlier records left them.
HintsInsideChangeSet ==
    [][ProcessLocations =>
        LET c == changes[idx]
            d == Dir(c.FilePath)
            id == Base(c.FilePath)
            isBefore == c.InsertBefore # <<>>
            X == (IF isBefore THEN c.InsertBefore ELSE c.InsertAfter) \o <<GopartExt>>
        IN  (/\ ~c.Delete
             /\ d \in DOMAIN orders
             /\ ~contains(orders[d], id)
             /\ (c.InsertBefore # <<>>) # (c.InsertAfter # <<>>)
             /\ was # <<>>
             /\ d \in DOMAIN was[1]
             /\ ~contains(was[1][d], X)
             /\ contains(orders[d], X))
            => \E i \in 1..Len(orders'[d]) :
                  /\ orders'[d][i] = id
                  /\ Without(orders'[d], i) = orders[d]
                  /\ IF isBefore
                     THEN i < Len(orders'[d]) /\ orders'[d][i+1] = X
                     ELSE i > 1 /\ orders'[d][i-1] = X]_vars

\* C26 happens: f3 was put in after f1 and then, in the same change-set, f4
\* before f3
HintsInsideChangeSetReached ==
    /\ Len(was) = 2
    /\ was[1][MainDir] =
          <<ImportsPart, VarsPart, <<"f1", GopartExt>>, <<"f2", GopartExt>> >>
    /\ changes[1].FilePath = UnitPath(MainDir, "f3")
    /\ changes[1].InsertAfter = <<"f1">>
    /\ changes[2].FilePath = UnitPath(MainDir, "f4")
    /\ changes[2].InsertBefore = <<"f3">>
    /\ orders[MainDir] =
          <<ImportsPart, VarsPart, <<"f1", GopartExt>>, <<"f4", GopartExt>>,
            <<"f3", GopartExt>>, <<"f2", GopartExt>> >>

\* C27 (every written unit is in a manifest): once a change-set has been
\* reconciled and applied, the unit id of each of its non-delete records is
\* in the manifest of the directory of the unit.
WrittenUnitsListed ==
    (pc = "idle" /\ changes # <<>>) =>
        \A i \in 1..Len(changes) :
            ~changes[i].Delete =>
                /\ Dir(changes[i].FilePath) \in DOMAIN orders
                /\ contains(orders[Dir(changes[i].FilePath)], Base(changes[i].FilePath))

----------------------------------------------------------------------------
(* Properties of the workflow, under SpecRun.                              *)

\* C22 (commit only after a successful build): a run of prompt has made a
\* commit only if its build succeeded; when its build failed, the run has
\* made no commit and no merge.
CommitAfterBuild ==
    /\ (run.build # "none" /\ run.commits > 0) => run.build = "ok"
    /\ run.build = "failed" => (run.commits = 0 /\ ~run.merged /\ ~run.pushed)

\* C22 happens: prompt has ended with a commit made after a build that
\* succeeded
CommitAfterBuildReached ==
    /\ pc = "done"
    /\ run.flags.prompt
    /\ run.build = "ok"
    /\ run.commits = 1

\* C23 (retry flag): when the build of prompt has failed and -retry-on-errors
\* was not given, no request for a fix is sent to the service.
RetryFlagGatesFix ==
    (run.build = "failed" /\ ~run.flags.retry) => run.fixes = 0

\* C24 (merge order): with -merge the branch has been deleted only if it
\* was merged into main and the result was pushed.
MergeBeforeDelete ==
    (run.flags.merge /\ run.deleted) => (run.merged /\ run.pushed /\ err = "")

\* C24 happens: mergeAndCleanup has merged, pushed and deleted the branch
MergeBeforeDeleteReached ==
    /\ pc = "done"
    /\ run.flags.merge
    /\ run.merged
    /\ run.pushed
    /\ run.deleted

\* a step that runs make build or make test
BuildRun ==
    Build \/ FixBuildMake \/ FixBuildRebuild \/ FixTestsMake \/ FixTestsRetest

\* C28 (recompose before build): when units are in use, no build or test
\* run starts while a change-set that was applied to the units has not been
\* recomposed into the source files.
RecomposeBeforeBuild ==
    [][(BuildRun /\ ~run.flags.noGopart) => ~run.stale]_vars

\* C29 (fix loops terminate): the process comes to its end, whatever the
\* builds and the tests say.
FixLoopsTerminate == <>(pc \in {"done", "exit"})

\* C30 (configuration is loaded once): loadConfig is called at most once in
\* a process.
ConfigLoadedOnce == run.loads <= 1

====
